---- MODULE Spec2Model ----
(***************************************************************************)
(* A model of generate_feed.py: the CSA-IoT certified-products scraper.    *)
(*                                                                         *)
(*   main                        the page loop, the cap, the feed write    *)
(*   parse_products              one listing page -> product dictionaries  *)
(*   fetch_certification_details one detail page  -> details dictionary    *)
(*   build_rss                   product dictionaries -> feed items        *)
(*                                                                         *)
(* Text is modelled by TLA+ strings and the string tests of the code       *)
(* (startswith, in, strip, strptime/strftime) are computed on them.        *)
(***************************************************************************)
EXTENDS Integers, Sequences, FiniteSets, TLC

(***************************************************************************)
(* Program constants.                                                      *)
(***************************************************************************)
NUM_PAGES == 3

Cap == 36

BASE_URL == "https://csa-iot.org/csa-iot_products/"

QUERY_PARAMS == "p_keywords&p_type%5B0%5D=17&p_type%5B1%5D=14&p_type%5B2%5D=1053&p_program_type%5B0%5D=1049&p_certificate&p_family&p_firmware_ver"

SITE_ORIGIN == "https://csa-iot.org"

(***************************************************************************)
(* Bounds of the explored inputs.                                          *)
(***************************************************************************)
\* Spec: tiles the site serves over all listing pages of one run.
MaxSiteTiles == 2

\* SpecCap: a listing page holds no tile, or MaxPageTiles - PageSpread to
\* MaxPageTiles tiles.
MaxPageTiles == 20

PageSpread == 5

\* SpecDetail: text blocks (<p> elements) on one detail page.
MaxBlocks == 4

(***************************************************************************)
(* Python's None, and a label whose find_next() finds no element (the      *)
(* attribute access on None then raises AttributeError).                   *)
(***************************************************************************)
None == "<None>"

NoNext == "<NoNext>"

(***************************************************************************)
(* String primitives.                                                      *)
(***************************************************************************)
StartsWith(s, p) == Len(s) >= Len(p) /\ SubSeq(s, 1, Len(p)) = p

Contains(s, sub) ==
    \E i \in 1..(Len(s) - Len(sub) + 1) : SubSeq(s, i, i + Len(sub) - 1) = sub

RECURSIVE LStrip(_)
LStrip(s) ==
    IF Len(s) > 0 /\ SubSeq(s, 1, 1) = " " THEN LStrip(SubSeq(s, 2, Len(s))) ELSE s

RECURSIVE RStrip(_)
RStrip(s) ==
    IF Len(s) > 0 /\ SubSeq(s, Len(s), Len(s)) = " "
    THEN RStrip(SubSeq(s, 1, Len(s) - 1))
    ELSE s

Strip(s) == RStrip(LStrip(s))

Digits == <<"0", "1", "2", "3", "4", "5", "6", "7", "8", "9">>

IsDigit(c) == \E d \in 1..10 : Digits[d] = c

DigitVal(c) == (CHOOSE d \in 1..10 : Digits[d] = c) - 1

AllDigits(s) == \A i \in 1..Len(s) : IsDigit(SubSeq(s, i, i))

RECURSIVE NumVal(_)
NumVal(s) ==
    IF Len(s) = 0 THEN 0
    ELSE 10 * NumVal(SubSeq(s, 1, Len(s) - 1)) + DigitVal(SubSeq(s, Len(s), Len(s)))

RECURSIVE NumStr(_)
NumStr(n) == IF n < 10 THEN Digits[n + 1] ELSE NumStr(n \div 10) \o Digits[(n % 10) + 1]

Pad2(n) == IF n < 10 THEN "0" \o NumStr(n) ELSE NumStr(n)

(***************************************************************************)
(* datetime.strptime(s, "%m/%d/%Y") and strftime('%a, %d %b %Y %H:%M:%S    *)
(* GMT') at midnight UTC.                                                  *)
(***************************************************************************)
IsLeap(y) == (y % 4 = 0 /\ y % 100 # 0) \/ y % 400 = 0

DaysIn(m, y) ==
    IF m = 2 THEN (IF IsLeap(y) THEN 29 ELSE 28)
    ELSE IF m \in {4, 6, 9, 11} THEN 30 ELSE 31

SlashesOf(s) == {i \in 1..Len(s) : SubSeq(s, i, i) = "/"}

Min(S) == CHOOSE x \in S : \A y \in S : x <= y

Max(S) == CHOOSE x \in S : \A y \in S : x >= y

\* [ok, m, d, y]: ok = FALSE is the ValueError strptime raises.
Strptime(s) ==
    LET bad == [ok |-> FALSE, m |-> 0, d |-> 0, y |-> 0] IN
    IF Cardinality(SlashesOf(s)) # 2 THEN bad
    ELSE LET i1 == Min(SlashesOf(s))
             i2 == Max(SlashesOf(s))
             ms == SubSeq(s, 1, i1 - 1)
             ds == SubSeq(s, i1 + 1, i2 - 1)
             ys == SubSeq(s, i2 + 1, Len(s))
         IN IF /\ Len(ms) \in 1..2 /\ AllDigits(ms)
               /\ Len(ds) \in 1..2 /\ AllDigits(ds)
               /\ Len(ys) = 4 /\ AllDigits(ys)
               /\ NumVal(ms) \in 1..12
               /\ NumVal(ys) >= 1
               /\ NumVal(ds) \in 1..DaysIn(NumVal(ms), NumVal(ys))
            THEN [ok |-> TRUE, m |-> NumVal(ms), d |-> NumVal(ds), y |-> NumVal(ys)]
            ELSE bad

DayNames == <<"Sun", "Mon", "Tue", "Wed", "Thu", "Fri", "Sat">>

MonthNames ==
    <<"Jan", "Feb", "Mar", "Apr", "May", "Jun", "Jul", "Aug", "Sep", "Oct", "Nov", "Dec">>

MonthOffset == <<0, 3, 2, 5, 0, 3, 5, 1, 4, 6, 2, 4>>

\* 0 = Sunday.
Weekday(m, d, y) ==
    LET yy == IF m < 3 THEN y - 1 ELSE y
    IN (yy + (yy \div 4) - (yy \div 100) + (yy \div 400) + MonthOffset[m] + d) % 7

Strftime(dt) ==
    DayNames[Weekday(dt.m, dt.d, dt.y) + 1] \o ", " \o Pad2(dt.d) \o " "
        \o MonthNames[dt.m] \o " " \o NumStr(dt.y) \o " 00:00:00 GMT"

(***************************************************************************)
(* fetch_certification_details.                                            *)
(*                                                                         *)
(* A detail page as the transport and the parser deliver it:               *)
(*   ok         FALSE: fetch_page_content raises (transport failure)       *)
(*   paras      the text of every <p>, in document order                   *)
(*   certDate, certId, firmware, hardware, transport, specVersion          *)
(*              None: the label is not on the page; NoNext: the label is   *)
(*              there, with no element after it; else the text of the      *)
(*              element after the label                                    *)
(*   imgs       the src of every <img> (None: an <img> without src)        *)
(***************************************************************************)
SentinelDetails ==
    [full_description |-> "Error fetching description",
     cert_date |-> "N/A",
     certificate_id |-> "N/A",
     firmware_version |-> "N/A",
     hardware_version |-> "N/A",
     transport_interface |-> "N/A",
     specification_version |-> "N/A",
     images |-> <<>>]

\* The state of the description loop: started, whether the loop was left by
\* break, and the text accumulated so far.
AccInit == [started |-> FALSE, stopped |-> FALSE, description |-> ""]

\* Mutant: the marker block is skipped and the loop goes on (no break).
AccStep_NoBreak(st, rawText) ==
    LET text == Strip(rawText)
        started1 == st.started \/ StartsWith(text, "By ")
    IN IF started1 /\ ~Contains(text, "View All Products")
       THEN [started |-> TRUE, stopped |-> FALSE,
             description |-> st.description \o text \o " "]
       ELSE [started |-> started1, stopped |-> FALSE, description |-> st.description]

\* One iteration of the description loop over one <p>.
AccStep(st, rawText) ==
    LET text == Strip(rawText)
        started1 == st.started \/ StartsWith(text, "By ")
    IN IF started1
       THEN IF Contains(text, "View All Products")
            THEN [started |-> TRUE, stopped |-> TRUE, description |-> st.description]
            ELSE [started |-> TRUE, stopped |-> FALSE,
                  description |-> st.description \o text \o " "]
       ELSE st

RECURSIVE AccRun(_, _, _)
AccRun(st, paras, i) ==
    IF i > Len(paras) \/ st.stopped THEN st ELSE AccRun(AccStep(st, paras[i]), paras, i + 1)

\* The description as the loop leaves it (before the final strip).
Describe(paras) == AccRun(AccInit, paras, 1).description

\* tag.find_next().text.strip() for a label that was found.
LabelText(v) == IF v = None THEN "N/A" ELSE Strip(v)

\* The statements after the description loop. raised = TRUE: an exception left
\* the try body; details then holds what had been extracted up to that point.
ExtractFields(resp, description) ==
    LET dateStr == IF resp.certDate \in {None, NoNext} THEN "" ELSE Strip(resp.certDate)
        dateRaises == \/ resp.certDate = NoNext
                      \/ (dateStr # "" /\ ~Strptime(dateStr).ok)
        certDate == IF dateStr = "" \/ dateRaises THEN "N/A"
                    ELSE Strftime(Strptime(dateStr))
        labels == <<resp.certId, resp.firmware, resp.hardware, resp.transport,
                    resp.specVersion>>
        \* the first label lookup that raises, 6 when none does
        firstBad == IF \E k \in 1..5 : labels[k] = NoNext
                    THEN Min({k \in 1..5 : labels[k] = NoNext}) ELSE 6
        got(k) == IF dateRaises \/ firstBad <= k THEN "N/A" ELSE LabelText(labels[k])
        raises == dateRaises \/ firstBad <= 5
    IN [raised |-> raises,
        details |->
           [full_description |-> IF raises THEN description ELSE Strip(description),
            cert_date |-> certDate,
            certificate_id |-> got(1),
            firmware_version |-> got(2),
            hardware_version |-> got(3),
            transport_interface |-> got(4),
            specification_version |-> got(5),
            images |-> IF raises THEN <<>>
                       ELSE SelectSeq(resp.imgs, LAMBDA x : x # None)]]

\* The try body on the response of fetch_page_content.
DetailsBody(resp) ==
    IF ~resp.ok
    THEN [raised |-> TRUE, details |-> SentinelDetails]
    ELSE ExtractFields(resp, Describe(resp.paras))

\* Mutant: the except clause returns what the try body had extracted.
DetailsOf_KeepPartial(resp) == DetailsBody(resp).details

\* try: ... return details / except Exception: return the sentinel record.
DetailsOf(resp) ==
    LET r == DetailsBody(resp) IN IF r.raised THEN SentinelDetails ELSE r.details

(***************************************************************************)
(* The site the run scrapes: listing tiles and the detail page behind each *)
(* absolute detail URL.                                                    *)
(*                                                                         *)
(* A tile (<article>) as the parser delivers it:                           *)
(*   heading  text of its first h2/h3/h4, None without one                 *)
(*   text     its whole visible text                                       *)
(*   href     href of its first <a href>, None without one                 *)
(*   img      src of its first <img>, None without one                     *)
(***************************************************************************)
TileA == [heading |-> " Acme Plug ", text |-> "Acme Plug Learn More",
          href |-> "/csa_product/acme-plug/", img |-> "https://csa-iot.org/acme.png"]

TileB == [heading |-> None, text |-> "Bolt Lamp Learn More",
          href |-> "https://csa-iot.org/csa_product/bolt-lamp/", img |-> None]

TileC == [heading |-> "Cord Hub", text |-> "Cord Hub Learn More",
          href |-> "/csa_product/cord-hub/", img |-> None]

TileD == [heading |-> "Dial Lock", text |-> "Dial Lock Learn More",
          href |-> "/csa_product/dial-lock/", img |-> "https://csa-iot.org/dial.png"]

TileE == [heading |-> "All End Products", text |-> "All End Products Learn More",
          href |-> "/csa_product/bundle/", img |-> "https://csa-iot.org/bundle.png"]

TileF == [heading |-> "Fern Sensor", text |-> "Fern Sensor Learn More",
          href |-> "/csa_product/fern-sensor/", img |-> None]

TileN == [heading |-> "Nova Switch", text |-> "Nova Switch",
          href |-> None, img |-> "https://csa-iot.org/nova.png"]

TileL == [heading |-> "Lumen Bulb", text |-> "Lumen Bulb Learn More",
          href |-> "https://csa-iot.org/members/lumen/", img |-> None]

TileKinds == {TileA, TileB, TileC, TileD, TileE, TileF, TileN, TileL}

\* Everything present and well-formed.
DetailA ==
    [ok |-> TRUE,
     paras |-> <<"Certified Products", " By Acme ", "A smart plug.", "View All Products",
                 "By Acme too">>,
     certDate |-> " 01/15/2024 ", certId |-> "CSA22059MAT40059-24",
     firmware |-> "1.0", hardware |-> "2", transport |-> " Wi-Fi ", specVersion |-> "1.2",
     imgs |-> <<None, "https://csa-iot.org/acme-1.png">>]

\* No label at all, no marker block.
DetailB ==
    [ok |-> TRUE,
     paras |-> <<"By Bolt", "A lamp.">>,
     certDate |-> None, certId |-> None,
     firmware |-> None, hardware |-> None, transport |-> None, specVersion |-> None,
     imgs |-> <<"https://csa-iot.org/bolt-1.png">>]

\* The transport fails.
DetailC ==
    [ok |-> FALSE,
     paras |-> <<>>,
     certDate |-> None, certId |-> None,
     firmware |-> None, hardware |-> None, transport |-> None, specVersion |-> None,
     imgs |-> <<>>]

\* A certification date strptime rejects.
DetailD ==
    [ok |-> TRUE,
     paras |-> <<"By Dial", "A lock.", "View All Products">>,
     certDate |-> "2024-01-15", certId |-> "CSA4",
     firmware |-> "3.1", hardware |-> "1", transport |-> "Thread", specVersion |-> "1.3",
     imgs |-> <<"https://csa-iot.org/dial-1.png">>]

\* A label with no element after it.
DetailF ==
    [ok |-> TRUE,
     paras |-> <<"By Fern", "A sensor.">>,
     certDate |-> "02/29/2024", certId |-> "CSA6",
     firmware |-> NoNext, hardware |-> "1", transport |-> "Thread", specVersion |-> "1.3",
     imgs |-> <<"https://csa-iot.org/fern-1.png">>]

\* fetch_page_content on a detail URL.
DetailSite(url) ==
    CASE url = SITE_ORIGIN \o "/csa_product/acme-plug/" -> DetailA
      [] url = SITE_ORIGIN \o "/csa_product/bolt-lamp/" -> DetailB
      [] url = SITE_ORIGIN \o "/csa_product/dial-lock/" -> DetailD
      [] url = SITE_ORIGIN \o "/csa_product/fern-sensor/" -> DetailF
      [] url = SITE_ORIGIN \o "/csa_product/bundle/" -> DetailA
      [] OTHER -> DetailC

FetchCertificationDetails(url) == DetailsOf(DetailSite(url))

(***************************************************************************)
(* construct_url, parse_products, build_rss.                               *)
(***************************************************************************)
ConstructUrl(page_number) ==
    IF page_number = 1
    THEN BASE_URL \o "?" \o QUERY_PARAMS
    ELSE BASE_URL \o "page/" \o NumStr(page_number) \o "/?" \o QUERY_PARAMS

\* Python truthiness of an optional string.
Truthy(v) == v # None /\ v # ""

TitleOf(tile) == IF tile.heading # None THEN Strip(tile.heading) ELSE Strip(tile.text)

UrlOf(tile) ==
    IF Truthy(tile.href) /\ ~StartsWith(tile.href, "http")
    THEN SITE_ORIGIN \o tile.href
    ELSE tile.href

IsExcluded(tile) == Contains(TitleOf(tile), "End Products")

IsDetailUrl(url) == Truthy(url) /\ Contains(url, "csa_product")

ExtendedDescription(details) ==
    details.full_description \o "<br><br>"
        \o "Firmware Version: " \o details.firmware_version \o "<br>"
        \o "Hardware Version: " \o details.hardware_version \o "<br>"
        \o "Transport Interface: " \o details.transport_interface \o "<br>"
        \o "Specification Version: " \o details.specification_version \o "<br>"

\* The product dictionary of a tile; src (listing page, position on it) is a
\* history field the program does not hold.
ProductOf(tile, details, src) ==
    [title |-> TitleOf(tile),
     link |-> IF Truthy(UrlOf(tile)) THEN UrlOf(tile) ELSE "N/A",
     image |-> IF ~Truthy(tile.img) /\ details.images # <<>>
               THEN details.images[1] ELSE tile.img,
     description |-> ExtendedDescription(details),
     pubDate |-> details.cert_date,
     certificate_id |-> details.certificate_id,
     src |-> src]

\* Mutant: the exclusion test comes after the enrichment.
LoopBody_ExcludeAfterEnrich(tile, src) ==
    IF IsDetailUrl(UrlOf(tile))
    THEN [fetched |-> TRUE,
          recs |-> IF IsExcluded(tile) THEN <<>>
                   ELSE <<ProductOf(tile, FetchCertificationDetails(UrlOf(tile)), src)>>]
    ELSE [fetched |-> FALSE, recs |-> <<>>]

\* One iteration of the tile loop: whether a detail fetch is made, and the
\* records appended to products (none or one).
LoopBody(tile, src) ==
    IF IsExcluded(tile)
    THEN [fetched |-> FALSE, recs |-> <<>>]
    ELSE IF IsDetailUrl(UrlOf(tile))
         THEN [fetched |-> TRUE,
               recs |-> <<ProductOf(tile, FetchCertificationDetails(UrlOf(tile)), src)>>]
         ELSE [fetched |-> FALSE, recs |-> <<>>]

\* One <item>: guid is always written; media (the <media:content> url) only
\* for a truthy image.
ItemOf(prod) ==
    [title |-> prod.title,
     link |-> prod.link,
     description |-> prod.description,
     pubDate |-> prod.pubDate,
     guid |-> prod.certificate_id,
     media |-> IF Truthy(prod.image) THEN prod.image ELSE None]

\* The feed: the channel's fixed texts and one item per product, in order
\* (lastBuildDate is the wall clock and is left out).
BuildRss(prods) ==
    [title |-> "CSA-IoT Certified Products Feed",
     link |-> BASE_URL \o "?" \o QUERY_PARAMS,
     items |-> [i \in 1..Len(prods) |-> ItemOf(prods[i])]]

(***************************************************************************)
(* main: the pieces of the page loop.                                      *)
(***************************************************************************)
\* Mutant: the slice all_products[:36] is missing.
Accumulate_NoTruncate(all, prods) ==
    [all |-> all \o prods, stop |-> Len(all \o prods) >= Cap]

\* Mutant: the break is missing.
Accumulate_NoBreak(all, prods) ==
    [all |-> IF Len(all \o prods) >= Cap THEN SubSeq(all \o prods, 1, Cap)
             ELSE all \o prods,
     stop |-> FALSE]

\* all_products.extend(products) and the cap test: the new all_products and
\* whether the loop is left by break.
Accumulate(all, prods) ==
    LET ext == all \o prods
    IN IF Len(ext) >= Cap
       THEN [all |-> SubSeq(ext, 1, Cap), stop |-> TRUE]
       ELSE [all |-> ext, stop |-> FALSE]

\* Where the for loop goes after the body for page p ends without break.
NextIteration(p) ==
    IF p < NUM_PAGES THEN [pc |-> "fetch", page |-> p + 1] ELSE [pc |-> "final", page |-> p]

\* Mutant: the failure of a page ends the loop.
AfterError_Abort(p) == [pc |-> "final", page |-> p]

\* The except clause of the loop body: the exception is printed and the loop
\* goes on.
AfterError(p) == NextIteration(p)

\* Mutant: the emptiness test is missing.
HasProducts_Unchecked(all) == TRUE

\* `if not all_products` negated.
HasProducts(all) == Len(all) > 0

(***************************************************************************)
(* State.                                                                  *)
(*                                                                         *)
(* main and parse_products:                                                *)
(*   pc            "fetch" (top of the loop body), "parse" (in the tile    *)
(*                 loop), "final" (after the loop), "done"                 *)
(*   page          the loop variable                                       *)
(*   all_products  main's accumulated list                                 *)
(*   tiles, idx    parse_products: the page's tiles, the next one          *)
(*   products      parse_products: its list (the three are reset when the  *)
(*                 call ends: they are its locals)                         *)
(*   feed          feed.xml (None: not written)                            *)
(*   out           the last message printed after the loop                 *)
(* history of the run:                                                     *)
(*   requested     listing URLs requested, in order                        *)
(*   detailLog     src of every tile fetch_certification_details ran for   *)
(*   errors        pages whose body ended in the except clause             *)
(*   pageLog       per page: what became of it, its tiles, the number of   *)
(*                 records parse_products returned, and the length of      *)
(*                 all_products when the page was requested                *)
(*   rssArgs       the arguments build_rss was called with                 *)
(* one call of fetch_certification_details, statement by statement:        *)
(*   dhtml         the detail page of the call                             *)
(*   dpc           "idle", "fetch", "loop", "return"                       *)
(*   bi, acc       the description loop: next <p>, its state               *)
(*   appended      indices of the <p> whose text was appended              *)
(*   dresult       the dictionary returned                                 *)
(*   runs, firstResult   the call is made twice on the same page           *)
(***************************************************************************)
VARIABLES pc, page, all_products, tiles, idx, products, feed, out,
          requested, detailLog, errors, pageLog, rssArgs,
          dhtml, dpc, bi, acc, appended, dresult, runs, firstResult

mvars == <<pc, page, all_products, tiles, idx, products, feed, out,
           requested, detailLog, errors, pageLog, rssArgs>>

dvars == <<dhtml, dpc, bi, acc, appended, dresult, runs, firstResult>>

vars == <<mvars, dvars>>

NoFeed == [title |-> None, link |-> None, items |-> <<>>]

MainInit ==
    /\ pc = "fetch"
    /\ page = 1
    /\ all_products = <<>>
    /\ tiles = <<>>
    /\ idx = 1
    /\ products = <<>>
    /\ feed = NoFeed
    /\ out = None
    /\ requested = <<>>
    /\ detailLog = <<>>
    /\ errors = <<>>
    /\ pageLog = [p \in 1..NUM_PAGES |->
                    [status |-> "pending", tiles |-> <<>>, yield |-> 0, before |-> 0]]
    /\ rssArgs = <<>>

DetailIdle ==
    /\ dhtml = DetailC
    /\ dpc = "idle"
    /\ bi = 1
    /\ acc = AccInit
    /\ appended = <<>>
    /\ dresult = SentinelDetails
    /\ runs = 0
    /\ firstResult = SentinelDetails

\* html = fetch_page_content(url) returns the listing page html.
FetchListingOk(html) ==
    /\ pc = "fetch"
    /\ requested' = Append(requested, ConstructUrl(page))
    /\ pageLog' = [pageLog EXCEPT ![page] =
                     [status |-> "parsing", tiles |-> html, yield |-> 0,
                      before |-> Len(all_products)]]
    /\ tiles' = html
    /\ idx' = 1
    /\ products' = <<>>
    /\ pc' = "parse"
    /\ UNCHANGED <<page, all_products, feed, out, detailLog, errors, rssArgs>>
    /\ UNCHANGED dvars

\* fetch_page_content(url) raises (requests.get or raise_for_status).
FetchListingFail ==
    /\ pc = "fetch"
    /\ requested' = Append(requested, ConstructUrl(page))
    /\ pageLog' = [pageLog EXCEPT ![page] =
                     [status |-> "fetch_error", tiles |-> <<>>, yield |-> 0,
                      before |-> Len(all_products)]]
    /\ errors' = Append(errors, page)
    /\ pc' = AfterError(page).pc
    /\ page' = AfterError(page).page
    /\ UNCHANGED <<all_products, tiles, idx, products, feed, out, detailLog, rssArgs>>
    /\ UNCHANGED dvars

\* One iteration of parse_products' loop over the tiles.
ParseTile ==
    /\ pc = "parse"
    /\ idx <= Len(tiles)
    /\ LET body == LoopBody(tiles[idx], <<page, idx>>)
       IN /\ products' = products \o body.recs
          /\ detailLog' = IF body.fetched THEN Append(detailLog, <<page, idx>>)
                          ELSE detailLog
    /\ idx' = idx + 1
    /\ UNCHANGED <<pc, page, all_products, tiles, feed, out, requested, errors,
                   pageLog, rssArgs>>
    /\ UNCHANGED dvars

\* An exception leaves parse_products: the parser raises on the html, before
\* the tile loop (no statement of the loop raises: fetch_certification_details
\* catches every exception and every subscript is guarded). main's except
\* clause runs.
ParseError ==
    /\ pc = "parse"
    /\ idx = 1
    /\ pageLog' = [pageLog EXCEPT ![page].status = "parse_error"]
    /\ errors' = Append(errors, page)
    /\ pc' = AfterError(page).pc
    /\ page' = AfterError(page).page
    /\ tiles' = <<>>
    /\ UNCHANGED <<all_products, idx, products, feed, out, requested,
                   detailLog, rssArgs>>
    /\ UNCHANGED dvars

\* parse_products returns; main extends all_products and tests the cap.
EndParse ==
    /\ pc = "parse"
    /\ idx > Len(tiles)
    /\ LET r == Accumulate(all_products, products)
       IN /\ all_products' = r.all
          /\ pc' = IF r.stop THEN "final" ELSE NextIteration(page).pc
          /\ page' = IF r.stop THEN page ELSE NextIteration(page).page
    /\ pageLog' = [pageLog EXCEPT ![page].status = "ok", ![page].yield = Len(products)]
    /\ tiles' = <<>>
    /\ idx' = 1
    /\ products' = <<>>
    /\ UNCHANGED <<feed, out, requested, detailLog, errors, rssArgs>>
    /\ UNCHANGED dvars

\* After the loop, nothing accumulated: "No products found across pages."
NoData ==
    /\ pc = "final"
    /\ ~HasProducts(all_products)
    /\ out' = "No products found across pages."
    /\ pc' = "done"
    /\ UNCHANGED <<page, all_products, tiles, idx, products, feed, requested,
                   detailLog, errors, pageLog, rssArgs>>
    /\ UNCHANGED dvars

\* After the loop: build_rss(all_products) is written to feed.xml.
WriteFeed ==
    /\ pc = "final"
    /\ HasProducts(all_products)
    /\ rssArgs' = Append(rssArgs, all_products)
    /\ feed' = BuildRss(all_products)
    /\ out' = "RSS feed created successfully: feed.xml"
    /\ pc' = "done"
    /\ UNCHANGED <<page, all_products, tiles, idx, products, requested, detailLog,
                   errors, pageLog>>
    /\ UNCHANGED dvars

(***************************************************************************)
(* Spec: the whole program on a site of at most MaxSiteTiles tiles of any  *)
(* kind, spread over the listing pages in any way.                         *)
(***************************************************************************)
RECURSIVE TilesServedUpTo(_)
TilesServedUpTo(p) == IF p = 0 THEN 0 ELSE TilesServedUpTo(p - 1) + Len(pageLog[p].tiles)

TilesServed == TilesServedUpTo(NUM_PAGES)

SitePages(n) == UNION {[1..k -> TileKinds] : k \in 0..n}

Init == MainInit /\ DetailIdle

Next ==
    \/ \E html \in SitePages(MaxSiteTiles - TilesServed) : FetchListingOk(html)
    \/ FetchListingFail
    \/ ParseTile
    \/ ParseError
    \/ EndParse
    \/ NoData
    \/ WriteFeed

Spec == Init /\ [][Next]_vars

(***************************************************************************)
(* SpecCap: the whole program on long listing pages: an empty page, n      *)
(* detail tiles, or MaxPageTiles tiles of mixed kinds.                     *)
(***************************************************************************)
UniformPage(n) == [i \in 1..n |-> TileA]

MixedPage(n) ==
    [i \in 1..n |-> IF i % 4 = 1 THEN TileE ELSE IF i % 4 = 3 THEN TileN ELSE TileA]

CapPages ==
    {UniformPage(n) : n \in (MaxPageTiles - PageSpread)..MaxPageTiles}
        \cup {<<>>, MixedPage(MaxPageTiles)}

NextCap ==
    \/ \E html \in CapPages : FetchListingOk(html)
    \/ FetchListingFail
    \/ ParseTile
    \/ ParseError
    \/ EndParse
    \/ NoData
    \/ WriteFeed

SpecCap == Init /\ [][NextCap]_vars

(***************************************************************************)
(* SpecDetail: one call of fetch_certification_details, statement by       *)
(* statement, on every detail page whose <p> texts are at most MaxBlocks   *)
(* blocks of BlockKinds, then the same call once more on the same page.    *)
(***************************************************************************)
BlockKinds ==
    {" By Acme ", "A smart plug.", "View All Products", "Shop By Brand",
     "By Acme - View All Products", " "}

BlockSeqs == UNION {[1..k -> BlockKinds] : k \in 0..MaxBlocks}

DetailInputs ==
    {[base EXCEPT !.paras = bs] : base \in {DetailA, DetailD, DetailF}, bs \in BlockSeqs}
        \cup {DetailC}

DetailInit ==
    /\ dhtml \in DetailInputs
    /\ dpc = "fetch"
    /\ bi = 1
    /\ acc = AccInit
    /\ appended = <<>>
    /\ dresult = SentinelDetails
    /\ runs = 1
    /\ firstResult = SentinelDetails

\* html = fetch_page_content(url); soup; find_all("p"); description = "".
DFetch ==
    /\ dpc = "fetch"
    /\ IF dhtml.ok
       THEN /\ dpc' = "loop"
            /\ UNCHANGED dresult
       ELSE /\ dpc' = "return"
            /\ dresult' = SentinelDetails
    /\ bi' = 1
    /\ acc' = AccInit
    /\ appended' = <<>>
    /\ UNCHANGED <<dhtml, runs, firstResult>>
    /\ UNCHANGED mvars

\* One iteration of the description loop.
DStep ==
    /\ dpc = "loop"
    /\ bi <= Len(dhtml.paras)
    /\ ~acc.stopped
    /\ acc' = AccStep(acc, dhtml.paras[bi])
    /\ appended' = IF acc'.description # acc.description THEN Append(appended, bi)
                   ELSE appended
    /\ bi' = bi + 1
    /\ UNCHANGED <<dhtml, dpc, dresult, runs, firstResult>>
    /\ UNCHANGED mvars

\* The loop is over (exhausted, or left by break): the labelled fields, the
\* images, and the return of the try body or of the except clause.
DFields ==
    /\ dpc = "loop"
    /\ (bi > Len(dhtml.paras) \/ acc.stopped)
    /\ LET r == ExtractFields(dhtml, acc.description)
       IN dresult' = IF r.raised THEN SentinelDetails ELSE r.details
    /\ dpc' = "return"
    /\ UNCHANGED <<dhtml, bi, acc, appended, runs, firstResult>>
    /\ UNCHANGED mvars

\* The same page is enriched a second time.
DAgain ==
    /\ dpc = "return"
    /\ runs = 1
    /\ runs' = 2
    /\ firstResult' = dresult
    /\ dpc' = "fetch"
    /\ UNCHANGED <<dhtml, bi, acc, appended, dresult>>
    /\ UNCHANGED mvars

NextDetail == DFetch \/ DStep \/ DFields \/ DAgain

InitDetail == MainInit /\ DetailInit

SpecDetail == InitDetail /\ [][NextDetail]_vars

\* The stepwise call returns what the call made by parse_products returns.
DetailStepwiseAgrees == dpc = "return" => dresult = DetailsOf(dhtml)

(***************************************************************************)
(* Vocabulary of the properties.                                           *)
(***************************************************************************)
Range(f) == {f[i] : i \in DOMAIN f}

TileAt(e) == pageLog[e[1]].tiles[e[2]]

PageFailed(k) == pageLog[k].status \in {"fetch_error", "parse_error"}

\* The cap is reached by the records page k returned.
CapReachedAt(k) ==
    pageLog[k].status = "ok" /\ pageLog[k].before + pageLog[k].yield >= Cap

\* A detail tile that is not excluded: the tiles parse_products enriches.
IsEnrichable(tile) ==
    /\ ~Contains(TitleOf(tile), "End Products")
    /\ Truthy(UrlOf(tile))
    /\ Contains(UrlOf(tile), "csa_product")

(***************************************************************************)
(* C1. The list handed to build_rss never holds more than Cap (36)         *)
(* records: all_products never exceeds Cap, and once the records of a page *)
(* bring the count to Cap or more, all_products holds exactly Cap records, *)
(* the loop is over, and no page after that one was requested.             *)
(***************************************************************************)
C1_CapNeverExceeded ==
    /\ Len(all_products) <= Cap
    /\ \A i \in 1..Len(rssArgs) : Len(rssArgs[i]) <= Cap
    /\ \A k \in 1..NUM_PAGES :
         CapReachedAt(k) =>
            /\ Len(all_products) = Cap
            /\ pc \in {"final", "done"}
            /\ Len(requested) = k
            /\ \A j \in (k + 1)..NUM_PAGES : pageLog[j].status = "pending"

\* A run that ended with more than Cap records accumulated before truncation.
C1_Witness ==
    /\ pc = "done"
    /\ \E k \in 1..NUM_PAGES :
         CapReachedAt(k) /\ pageLog[k].before + pageLog[k].yield > Cap
    /\ Len(rssArgs) = 1
    /\ Len(rssArgs[1]) = Cap

(***************************************************************************)
(* C7 as claimed. No tile whose record would come after the Cap-th         *)
(* accumulated record is detail-enriched: the record of an enriched tile   *)
(* has a position of at most Cap in the accumulated list.                  *)
(***************************************************************************)
PositionOf(e) ==
    pageLog[e[1]].before
        + Cardinality({d \in Range(detailLog) : d[1] = e[1] /\ d[2] <= e[2]})

C7_NoEnrichmentPastCap == \A e \in Range(detailLog) : PositionOf(e) <= Cap

(***************************************************************************)
(* C7 as amended. The cap short-circuits whole pages only: every           *)
(* enriched tile is on a page requested while fewer than Cap records were  *)
(* accumulated, and every enrichable tile of a parsed page is enriched,    *)
(* those whose records the truncation drops included. With two pages of 20 *)
(* records each the run ends with exactly Cap records and no tile of page  *)
(* 3 is enriched.                                                          *)
(***************************************************************************)
C7_ShortCircuitByPage ==
    /\ \A e \in Range(detailLog) : pageLog[e[1]].before < Cap
    /\ \A k \in 1..NUM_PAGES :
         pageLog[k].status = "ok" =>
            \A i \in 1..Len(pageLog[k].tiles) :
               IsEnrichable(pageLog[k].tiles[i]) => <<k, i>> \in Range(detailLog)
    /\ (/\ pageLog[1].status = "ok" /\ pageLog[1].yield = 20
        /\ pageLog[2].status = "ok" /\ pageLog[2].yield = 20)
         => /\ pc \in {"final", "done"}
            /\ Len(all_products) = Cap
            /\ Len(requested) = 2
            /\ \A e \in Range(detailLog) : e[1] # 3

\* Two pages of 20 detail tiles: the last tile of page 2 was enriched and the
\* feed holds Cap items.
C7_Witness ==
    /\ pc = "done"
    /\ pageLog[1].yield = 20
    /\ pageLog[2].yield = 20
    /\ <<2, 20>> \in Range(detailLog)
    /\ Len(feed.items) = Cap
    /\ pageLog[3].status = "pending"

(***************************************************************************)
(* C4. A failure while fetching or parsing a listing page never aborts the *)
(* run: the step that records the failure leaves all_products unchanged    *)
(* and goes on with the next page (or, after the last page, with the code  *)
(* after the loop); the pages are requested in order, and the loop ends    *)
(* short of NUM_PAGES requests only when the cap was reached.              *)
(***************************************************************************)
C4_RequestsInOrder ==
    /\ \A i \in 1..Len(requested) : requested[i] = ConstructUrl(i)
    /\ (pc \in {"final", "done"} /\ Len(all_products) < Cap)
          => Len(requested) = NUM_PAGES

C4_PageFailureContained ==
    [][/\ (errors' # errors) =>
            /\ errors' = Append(errors, page)
            /\ all_products' = all_products
            /\ pc' = IF page < NUM_PAGES THEN "fetch" ELSE "final"
            /\ page < NUM_PAGES => page' = page + 1
       /\ C4_RequestsInOrder']_vars

\* A page failed with records accumulated before it, and the page after it
\* was requested and added records.
C4_Witness ==
    \E k \in 1..(NUM_PAGES - 1) :
       /\ PageFailed(k)
       /\ pageLog[k].before > 0
       /\ pageLog[k + 1].status = "ok"
       /\ pageLog[k + 1].before = pageLog[k].before
       /\ Len(all_products) > pageLog[k].before
       /\ Len(requested) > k

(***************************************************************************)
(* C8. When the loop ends with no record accumulated, main prints the "no  *)
(* products" message, build_rss is not called and no feed is written;      *)
(* build_rss is only ever called with a non-empty list.                    *)
(***************************************************************************)
C8_NoFeedWithoutProducts ==
    /\ (pc = "done" /\ all_products = <<>>) =>
          /\ out = "No products found across pages."
          /\ rssArgs = <<>>
          /\ feed = NoFeed
    /\ \A i \in 1..Len(rssArgs) : rssArgs[i] # <<>>
    /\ feed # NoFeed => rssArgs # <<>>

\* A run over pages that were parsed and held tiles, none of which gave a
\* record, ended with the message and without a feed.
C8_Witness ==
    /\ pc = "done"
    /\ all_products = <<>>
    /\ out = "No products found across pages."
    /\ \E k \in 1..NUM_PAGES :
         /\ pageLog[k].status = "ok"
         /\ \E i \in 1..Len(pageLog[k].tiles) : IsExcluded(pageLog[k].tiles[i])

(***************************************************************************)
(* C2. A tile whose title contains "End Products" never gives a product    *)
(* record and fetch_certification_details is never run for it, whatever    *)
(* its link and image and wherever it is on the page; the tiles after it   *)
(* are processed: every enrichable tile of a parsed page is enriched.      *)
(***************************************************************************)
C2_ExcludedTileSkipped ==
    /\ \A e \in Range(detailLog) : ~Contains(TitleOf(TileAt(e)), "End Products")
    /\ \A rec \in Range(products) \cup Range(all_products) :
          /\ ~Contains(rec.title, "End Products")
          /\ ~Contains(TitleOf(TileAt(rec.src)), "End Products")
    /\ \A k \in 1..NUM_PAGES :
         pageLog[k].status = "ok" =>
            \A i \in 1..Len(pageLog[k].tiles) :
               IsEnrichable(pageLog[k].tiles[i]) =>
                  /\ <<k, i>> \in Range(detailLog)
                  /\ \E rec \in Range(all_products) : rec.src = <<k, i>>

\* An excluded tile with a detail link, followed on its page by a tile that
\* was enriched and gave a record.
C2_Witness ==
    \E k \in 1..NUM_PAGES :
       /\ pageLog[k].status = "ok"
       /\ \E i \in 1..Len(pageLog[k].tiles) :
            /\ Contains(TitleOf(pageLog[k].tiles[i]), "End Products")
            /\ Contains(UrlOf(pageLog[k].tiles[i]), "csa_product")
            /\ \E j \in (i + 1)..Len(pageLog[k].tiles) :
                 /\ <<k, j>> \in Range(detailLog)
                 /\ \E rec \in Range(all_products) : rec.src = <<k, j>>

(***************************************************************************)
(* C3 as claimed. Every non-excluded tile of a parsed listing page gives   *)
(* exactly one product record, in tile order; a tile without a link gives  *)
(* a record whose link is "N/A".                                           *)
(***************************************************************************)
RecordsOfPage(k) == SelectSeq(all_products, LAMBDA rec : rec.src[1] = k)

NonExcludedOf(k) ==
    SelectSeq([i \in 1..Len(pageLog[k].tiles) |-> i],
              LAMBDA i : ~Contains(TitleOf(pageLog[k].tiles[i]), "End Products"))

C3_EveryTileYieldsARecord ==
    \A k \in 1..NUM_PAGES :
       pageLog[k].status = "ok" =>
          /\ Len(RecordsOfPage(k)) = Len(NonExcludedOf(k))
          /\ \A n \in 1..Len(RecordsOfPage(k)) :
                /\ RecordsOfPage(k)[n].src = <<k, NonExcludedOf(k)[n]>>
                /\ ~Truthy(TileAt(RecordsOfPage(k)[n].src).href)
                      => RecordsOfPage(k)[n].link = "N/A"

(***************************************************************************)
(* C5. fetch_certification_details never propagates an error. For a tile   *)
(* whose detail fetch fails in transport or in extraction, the record is   *)
(* built from the all-sentinel details (description "Error fetching        *)
(* description", every version field, the date and the certificate id      *)
(* "N/A", no image taken from the detail page), and every tile the         *)
(* enrichment ran for has its record: parse_products went on.              *)
(***************************************************************************)
EnrichmentFails(resp) ==
    \/ ~resp.ok
    \/ resp.certDate = NoNext
    \/ (resp.certDate # None /\ Strip(resp.certDate) # ""
           /\ ~Strptime(Strip(resp.certDate)).ok)
    \/ NoNext \in {resp.certId, resp.firmware, resp.hardware, resp.transport,
                   resp.specVersion}

ErrorDescription ==
    "Error fetching description<br><br>Firmware Version: N/A<br>Hardware Version: N/A<br>Transport Interface: N/A<br>Specification Version: N/A<br>"

RecordsNow == Range(products) \cup Range(all_products)

C5_EnrichmentFailureContained ==
    \A e \in Range(detailLog) :
       (pageLog[e[1]].status \in {"parsing", "ok"}) =>
          \E rec \in RecordsNow :
             /\ rec.src = e
             /\ EnrichmentFails(DetailSite(UrlOf(TileAt(e)))) =>
                   /\ rec.description = ErrorDescription
                   /\ rec.pubDate = "N/A"
                   /\ rec.certificate_id = "N/A"
                   /\ rec.image = TileAt(e).img

\* A tile whose certification date is malformed, one whose fetch fails and
\* one with a label that has no value each gave a sentinel record somewhere,
\* and a tile after a failing one was enriched.
C5_Witness ==
    /\ pc = "done"
    /\ \E e \in Range(detailLog) :
         /\ EnrichmentFails(DetailSite(UrlOf(TileAt(e))))
         /\ DetailSite(UrlOf(TileAt(e))).ok
         /\ \E rec \in Range(all_products) :
               rec.src = e /\ rec.description = ErrorDescription
         /\ \E f \in Range(detailLog) :
               /\ f[1] = e[1]
               /\ f[2] > e[2]
               /\ \E rec \in Range(all_products) : rec.src = f

(***************************************************************************)
(* C9 as claimed. A feed item carries a guid only when the certificate id  *)
(* of its detail page is present, and then the guid is that id; otherwise  *)
(* the item has no guid, so two items with unknown certificate ids never   *)
(* share a guid value.                                                     *)
(***************************************************************************)
CertIdKnown(link) ==
    /\ ~EnrichmentFails(DetailSite(link))
    /\ DetailSite(link).certId # None

C9_GuidOnlyWhenCertified ==
    /\ \A i \in 1..Len(feed.items) :
          IF CertIdKnown(feed.items[i].link)
          THEN feed.items[i].guid = Strip(DetailSite(feed.items[i].link).certId)
          ELSE feed.items[i].guid = None
    /\ \A i, j \in 1..Len(feed.items) :
          (/\ i # j
           /\ ~CertIdKnown(feed.items[i].link)
           /\ ~CertIdKnown(feed.items[j].link)
           /\ feed.items[i].guid # None)
             => feed.items[i].guid # feed.items[j].guid

(***************************************************************************)
(* Vocabulary of the description properties: the blocks of the page of the *)
(* call, as the loop reads them.                                           *)
(***************************************************************************)
BlockText(i) == Strip(dhtml.paras[i])

IsAttribution(i) == StartsWith(BlockText(i), "By ")

IsMarker(i) == Contains(BlockText(i), "View All Products")

\* Block i is read while collecting: an attribution block is at or before it.
Collecting(i) == \E b \in 1..i : IsAttribution(b)

\* The call returned from its try body.
ReturnedDetails == dpc = "return" /\ dresult # SentinelDetails

(***************************************************************************)
(* C6. Once a block containing "View All Products" is met while            *)
(* collecting, the accumulator is done: neither that block nor any block   *)
(* after it is appended, also when a later block starts with "By "; the    *)
(* description never contains the marker; and the second run over the same *)
(* blocks returns what the first returned.                                 *)
(***************************************************************************)
C6_NothingAfterMarker ==
    /\ \A k \in Range(appended) :
          \A m \in 1..k : ~(Collecting(m) /\ IsMarker(m))
    /\ \A m \in 1..(bi - 1) :
          (dpc = "loop" /\ Collecting(m) /\ IsMarker(m)) => acc.stopped
    /\ ~Contains(acc.description, "View All Products")
    /\ (dpc = "return" /\ runs = 2) => dresult = firstResult

\* The second run returned a description; the marker was met while
\* collecting, after an appended block, and a later block starts with "By ".
C6_Witness ==
    /\ ReturnedDetails
    /\ runs = 2
    /\ appended # <<>>
    /\ \E m \in 1..Len(dhtml.paras) :
          /\ Collecting(m)
          /\ IsMarker(m)
          /\ \E k \in Range(appended) : k < m
          /\ \E b \in (m + 1)..Len(dhtml.paras) : IsAttribution(b)

(***************************************************************************)
(* C10 as claimed. The description returned is the space-joined trimmed    *)
(* text of exactly the blocks after the first block starting with "By "    *)
(* and before the first following block containing "View All Products"     *)
(* (the attribution block is not part of it); it is empty when no block    *)
(* starts with "By ".                                                      *)
(***************************************************************************)
RECURSIVE JoinSpace(_)
JoinSpace(texts) ==
    IF Len(texts) = 0 THEN ""
    ELSE IF Len(texts) = 1 THEN texts[1]
    ELSE texts[1] \o " " \o JoinSpace(Tail(texts))

ClaimedDescription ==
    IF ~\E b \in 1..Len(dhtml.paras) : IsAttribution(b)
    THEN ""
    ELSE LET first == Min({b \in 1..Len(dhtml.paras) : IsAttribution(b)})
             after == {m \in (first + 1)..Len(dhtml.paras) : IsMarker(m)}
             last == IF after = {} THEN Len(dhtml.paras) ELSE Min(after) - 1
         IN JoinSpace([i \in 1..(last - first) |-> BlockText(first + i)])

C10_DescriptionExcludesAttribution ==
    ReturnedDetails => dresult.full_description = ClaimedDescription

====
